---- MODULE Spec2Model ----
(***************************************************************************)
(* A model of dead-link-checker (src/index.js): the crawl state shared by  *)
(* the module (queue, queuedLinks, visited, checkedLinks, deadLinks and    *)
(* the counters), main, processQueue's workers and the two kinds of task   *)
(* (checkLinks and the external leaf check).                               *)
(*                                                                         *)
(* Scheduling is that of the Node.js event loop: one action is one         *)
(* synchronous run of code between two awaits.  A string is a sequence of  *)
(* tokens (an origin, "/", a path segment, "#", a fragment name, " ", a    *)
(* scheme), so that trim, startsWith, split, endsWith and slice are        *)
(* computed on the text as the code computes them.                         *)
(***************************************************************************)
EXTENDS Integers, Sequences, FiniteSets, TLC

(***************************************************************************)
(* Bounds of the model.                                                    *)
(***************************************************************************)
\* the largest --concurrent value explored
MaxWorkers == 2

\* the largest number of transport failures (a rejected fetch or a rejected
\* body read) the network injects in one run
MaxFailures == 1

(***************************************************************************)
(* Strings.                                                                *)
(***************************************************************************)
SiteOrigin == "https://site.test"

OtherOrigin == "https://other.test"

LoopOrigin == "https://loop.test"

Origins == {SiteOrigin, OtherOrigin, LoopOrigin}

\* schemes whose URLs have no host: such a URL serializes as it was written
OpaqueSchemes == {"mailto:", "javascript:", "about:blank"}

\* text no URL parser accepts
BadToken == "http://["

\* the result of a `new URL` that throws
Invalid == <<"TypeError: Invalid URL">>

\* the sentinel status of a transport failure
FETCH_ERROR == -1

\* const v = x; F(v): x is evaluated once, whatever the number of uses of v
With(x, F(_)) == CHOOSE result \in {F(v) : v \in {x}} : TRUE

Last(s) == s[Len(s)]

RECURSIVE TrimStart(_)
TrimStart(s) ==
    IF s # <<>> /\ Head(s) = " " THEN TrimStart(Tail(s)) ELSE s

RECURSIVE TrimEnd(_)
TrimEnd(s) ==
    IF s # <<>> /\ Last(s) = " " THEN TrimEnd(SubSeq(s, 1, Len(s) - 1)) ELSE s

\* String.prototype.trim
Trim(s) == TrimEnd(TrimStart(s))

\* String.prototype.startsWith, for a one-token prefix
StartsWith(s, tok) == s # <<>> /\ Head(s) = tok

\* String.prototype.endsWith, for a one-token suffix
EndsWith(s, tok) == s # <<>> /\ Last(s) = tok

\* the index of the first "#" of s, 0 when there is none
HashPos(s) ==
    IF \E i \in 1..Len(s) : s[i] = "#"
    THEN CHOOSE i \in 1..Len(s) : s[i] = "#" /\ \A j \in 1..(i - 1) : s[j] # "#"
    ELSE 0

\* s.split("#")[0]
SplitHash0(s) == IF HashPos(s) = 0 THEN s ELSE SubSeq(s, 1, HashPos(s) - 1)

\* the "#..." tail of s, empty when there is none
HashTail(s) == IF HashPos(s) = 0 THEN <<>> ELSE SubSeq(s, HashPos(s), Len(s))

\* the index of the last "/" of a path
LastSlash(p) ==
    IF \E i \in 1..Len(p) : p[i] = "/"
    THEN CHOOSE i \in 1..Len(p) : p[i] = "/" /\ \A j \in (i + 1)..Len(p) : p[j] # "/"
    ELSE 0

\* the serialized path: the empty path of a URL with a host is "/"
PathOf(p) == IF p = <<>> THEN <<"/">> ELSE p

\* new URL(u).origin: "null" for a URL without a host
UrlOrigin(u) == IF u # <<>> /\ Head(u) \in Origins THEN Head(u) ELSE "null"

\* new URL(ref, base).href; base = <<>> is new URL(ref).href.  Invalid when
\* the constructor throws.
NewURL(ref, base) ==
    With(Trim(ref), LAMBDA r :
        LET pre  == SplitHash0(r)
            frag == HashTail(r)
        IN  IF \E i \in 1..Len(r) : r[i] = BadToken THEN Invalid
            ELSE IF r # <<>> /\ Head(r) \in OpaqueSchemes THEN r
            ELSE IF pre # <<>> /\ Head(pre) \in Origins
                 THEN <<Head(pre)>> \o PathOf(Tail(pre)) \o frag
            ELSE IF UrlOrigin(base) = "null" THEN Invalid
            ELSE LET bpath == PathOf(SplitHash0(Tail(base)))
                 IN  IF pre = <<>> THEN <<Head(base)>> \o bpath \o frag
                     ELSE IF Head(pre) = "/" THEN <<Head(base)>> \o pre \o frag
                     ELSE <<Head(base)>> \o SubSeq(bpath, 1, LastSlash(bpath))
                              \o pre \o frag)

(***************************************************************************)
(* The network: a synthetic set of servers.  A request carries no fragment *)
(* and the servers answer a path with and without its trailing slash alike.*)
(***************************************************************************)
\* the resource a request for the URL u names
Resource(u) ==
    With(SplitHash0(u), LAMBDA p :
        IF Len(p) > 1 /\ Last(p) = "/" THEN SubSeq(p, 1, Len(p) - 1) ELSE p)

Html(hrefs) ==
    [status |-> 200, location |-> <<>>, ctype |-> "text/html; charset=utf-8",
     hrefs |-> hrefs]

Plain(status) ==
    [status |-> status, location |-> <<>>, ctype |-> "text/plain", hrefs |-> <<>>]

Redirect(status, location) ==
    [status |-> status, location |-> location, ctype |-> "", hrefs |-> <<>>]

\* the anchors of https://site.test/ex: the excluded forms, an unparsable
\* href, and spellings of /about and /missing
ExcludedPageHrefs ==
    << <<"mailto:", "x@y.com">>, <<"javascript:", "void(0)">>, <<"#", "top">>,
       <<>>, <<"about:blank">>, <<" ">>, <<" ", "mailto:", "x@y.com">>,
       <<BadToken>>, <<" ", "/", "about", " ">>, <<"/", "about", "/">>,
       <<"/", "about", "#", "frag">>, <<"missing">> >>

\* the response of the servers to a request for resource r
SiteResponse(r) ==
    CASE r = <<SiteOrigin>> ->
            Html(<< <<"/", "about">>, <<OtherOrigin, "/", "x">>, <<"/", "missing">> >>)
      [] r = <<SiteOrigin, "/", "about">> -> Html(<<>>)
      [] r = <<SiteOrigin, "/", "missing">> -> Plain(404)
      [] r = <<OtherOrigin, "/", "x">> ->
            Html(<< <<OtherOrigin, "/", "y">>, <<"/", "z">> >>)
      [] r = <<OtherOrigin, "/", "y">> -> Plain(200)
      [] r = <<SiteOrigin, "/", "c">> ->
            Html(<< <<"/", "d">>, <<"/", "about">>, <<OtherOrigin, "/", "x">> >>)
      [] r = <<SiteOrigin, "/", "d">> ->
            Html(<< <<"/", "c", "/">>, <<"/", "about", "/">>,
                    <<OtherOrigin, "/", "x", "#", "frag">>, <<"/", "r">> >>)
      [] r = <<SiteOrigin, "/", "r">> -> Redirect(301, <<"/", "about">>)
      [] r = <<SiteOrigin, "/", "go">> -> Redirect(301, <<OtherOrigin, "/", "x">>)
      [] r = <<SiteOrigin, "/", "ex">> -> Html(ExcludedPageHrefs)
      [] r = <<SiteOrigin, "/", "m">> ->
            Html(<< <<"about:blank", "#", "x">>, <<OtherOrigin, "/", "noloc">>,
                    <<"/", "noloc">>, <<"/", "badloc">>,
                    <<OtherOrigin, "/", "moved">> >>)
      [] r = <<SiteOrigin, "/", "noloc">> -> Redirect(301, <<>>)
      [] r = <<OtherOrigin, "/", "noloc">> -> Redirect(302, <<>>)
      [] r = <<SiteOrigin, "/", "badloc">> -> Redirect(302, <<BadToken>>)
      [] r = <<OtherOrigin, "/", "moved">> -> Redirect(301, <<"/", "y">>)
      [] r = <<SiteOrigin, "/", "r1">> -> Redirect(301, <<"/", "r2">>)
      [] r = <<SiteOrigin, "/", "r2">> -> Redirect(302, <<"/", "r1">>)
      [] r = <<SiteOrigin, "/", "t">> ->
            Html(<< <<"/", "about">>, <<OtherOrigin, "/", "y">>, <<"/", "r1">> >>)
      [] r = <<LoopOrigin>> -> Redirect(301, <<"/", "b">>)
      [] r = <<LoopOrigin, "/", "b">> -> Redirect(302, <<LoopOrigin>>)
      [] OTHER -> Plain(404)

\* fetch can reach only an http(s) URL; for any other it rejects
Fetchable(u) == UrlOrigin(NewURL(u, <<>>)) \in Origins

\* the response fetch(u) resolves with
Fetch(u) == With(Resource(NewURL(u, <<>>)), SiteResponse)

\* no URL on the command line
NoURL == <<>>

\* the command lines: the seed URL as typed
Seeds ==
    { <<SiteOrigin, "/">>, <<SiteOrigin, "/", "c">>, <<SiteOrigin, "/", "c", "/">>,
      <<SiteOrigin, "/", "go">>, <<SiteOrigin, "/", "ex">>, <<SiteOrigin, "/", "m">>,
      <<SiteOrigin, "/", "r1">>, <<SiteOrigin, "/", "t">>, <<LoopOrigin>>,
      <<LoopOrigin, "/">>, <<BadToken>>, NoURL }

(***************************************************************************)
(* State.                                                                  *)
(***************************************************************************)
VARIABLES
    deadLinks,      \* index.js:8   the dead-link list
    visited,        \* index.js:9
    queuedLinks,    \* index.js:10
    checkedLinks,   \* index.js:11  the all-outcomes list
    checked,        \* index.js:12
    totalLinks,     \* index.js:13
    isProcessing,   \* index.js:14
    queue,          \* index.js:17  the pending tasks
    mainPc,         \* where main is
    inputURL,       \* main's inputURL
    origin,         \* main's origin
    concurrentRequests, \* main's concurrentRequests
    started,        \* how many of processQueue's workers have been created
    worker,         \* each worker: where it is, its task, the response it holds
    exitCode,       \* the argument of process.exit, -1 while running
    failures,       \* history: the transport failures the network has injected
    pushed,         \* history: every queue.push, in order
    discovered,     \* history: the seed, then every redirect target and every
                    \* extracted link, as it is tested against queuedLinks
    fetched,        \* history: the URL of every fetch call, in order
    completed       \* history: the id of every task whose promise has settled

vars ==
    <<deadLinks, visited, queuedLinks, checkedLinks, checked, totalLinks,
      isProcessing, queue, mainPc, inputURL, origin, concurrentRequests, started,
      worker, exitCode, failures, pushed, discovered, fetched, completed>>

Workers == 1..MaxWorkers

NoTask == [kind |-> "none", url |-> <<>>, id |-> 0]

NoResponse == [status |-> 0, location |-> <<>>, ctype |-> "", hrefs |-> <<>>]

Idle(pc) == [pc |-> pc, task |-> NoTask, response |-> NoResponse]

Init ==
    /\ deadLinks = <<>>
    /\ visited = {}
    /\ queuedLinks = {}
    /\ checkedLinks = <<>>
    /\ checked = 0
    /\ totalLinks = 0
    /\ isProcessing = TRUE
    /\ queue = <<>>
    /\ mainPc = "start"
    /\ inputURL \in Seeds
    /\ concurrentRequests \in 1..MaxWorkers
    /\ origin = "null"
    /\ started = 0
    /\ worker = [w \in Workers |-> Idle("new")]
    /\ exitCode = -1
    /\ failures = <<>>
    /\ pushed = <<>>
    /\ discovered = <<>>
    /\ fetched = <<>>
    /\ completed = <<>>

(***************************************************************************)
(* checkLinks and the external leaf check, as functions of the shared      *)
(* state they read and write.                                              *)
(***************************************************************************)
\* an entry of checkedLinks or deadLinks; error "" is an absent error
Outcome(url, status, error) == [url |-> url, status |-> status, error |-> error]

\* a closure pushed on the queue: () => checkLinks(url, origin), or the
\* external check of url
Task(kind, url, id) == [kind |-> kind, url |-> url, id |-> id]

\* the record kept of one queue.push: the task, why it was pushed (via), by
\* the check of which URL (from) and for which href or Location (href)
Push(task, via, from, href) ==
    [id |-> task.id, kind |-> task.kind, url |-> task.url, via |-> via,
     from |-> from, href |-> href]

\* the shared state a task's synchronous run works on; threw: an exception is
\* on its way to the catch block
Store ==
    [queue |-> queue, queuedLinks |-> queuedLinks, totalLinks |-> totalLinks,
     checkedLinks |-> checkedLinks, deadLinks |-> deadLinks, checked |-> checked,
     pushed |-> pushed, discovered |-> discovered, threw |-> FALSE]

\* contentType.includes("text/html")
IsHtml(ctype) == ctype \in {"text/html", "text/html; charset=utf-8"}

\* a filter that forgets the mailto: links
KeepHrefWithoutMailto(href) ==
    /\ href # <<>>
    /\ ~StartsWith(href, "javascript:")
    /\ ~StartsWith(href, "#")
    /\ href # <<"about:blank">>

\* the filter of the anchors, on the trimmed href
KeepHref(href) ==
    /\ href # <<>>
    /\ ~StartsWith(href, "mailto:")
    /\ ~StartsWith(href, "javascript:")
    /\ ~StartsWith(href, "#")
    /\ href # <<"about:blank">>

\* resolvedLink.endsWith("/") ? resolvedLink.slice(0, -1) : resolvedLink
NormalizeLink(resolvedLink) ==
    IF EndsWith(resolvedLink, "/")
    THEN SubSeq(resolvedLink, 1, Len(resolvedLink) - 1)
    ELSE resolvedLink

\* the reduce over the anchors of the page at url: the links, each with the
\* href attribute it came from
RECURSIVE ExtractLinks(_, _)
ExtractLinks(hrefs, url) ==
    IF hrefs = <<>> THEN <<>>
    ELSE With(Trim(Head(hrefs)), LAMBDA href :
         With(NewURL(SplitHash0(href), url), LAMBDA resolved :
             IF KeepHref(href) /\ resolved # Invalid
             THEN <<[link |-> NormalizeLink(resolved), href |-> Head(hrefs)]>>
                      \o ExtractLinks(Tail(hrefs), url)
             ELSE ExtractLinks(Tail(hrefs), url)))

\* the kind of task pushed for an extracted link
LinkTaskKind(link, org) ==
    IF UrlOrigin(NewURL(link, <<>>)) = org THEN "checkLinks" ELSE "leaf"

\* an iteration that leaves an external link out of the count
EnqueueLinkUncounted(link, href, url, org, st) ==
    LET task == Task(LinkTaskKind(link, org), link, Len(st.pushed) + 1)
        st1  == [st EXCEPT !.discovered = Append(@, link)]
    IN  IF link \in st.queuedLinks THEN st1
        ELSE IF NewURL(link, <<>>) = Invalid
        THEN [st1 EXCEPT !.queuedLinks = @ \cup {link}, !.threw = TRUE]
        ELSE [st1 EXCEPT !.queuedLinks = @ \cup {link},
                         !.queue = Append(@, task),
                         !.totalLinks = IF task.kind = "leaf" THEN @ ELSE @ + 1,
                         !.pushed = Append(@, Push(task, "link", url, href))]

\* one iteration of the loop over the extracted links of the page at url,
\* for the link extracted from the anchor href
EnqueueLink(link, href, url, org, st) ==
    LET task == Task(LinkTaskKind(link, org), link, Len(st.pushed) + 1)
        st1  == [st EXCEPT !.discovered = Append(@, link)]
    IN  IF link \in st.queuedLinks THEN st1
        ELSE IF NewURL(link, <<>>) = Invalid
        THEN [st1 EXCEPT !.queuedLinks = @ \cup {link}, !.threw = TRUE]
        ELSE [st1 EXCEPT !.queuedLinks = @ \cup {link},
                         !.queue = Append(@, task),
                         !.totalLinks = @ + 1,
                         !.pushed = Append(@, Push(task, "link", url, href))]

\* the loop over the extracted links of the page at url, from the state st0
RECURSIVE EnqueueLinks(_, _, _, _)
EnqueueLinks(links0, url, org, st0) ==
    With(<<links0, st0>>, LAMBDA v :
        LET links == v[1]
            st    == v[2]
        IN  IF links = <<>> \/ st.threw THEN st
            ELSE EnqueueLinks(Tail(links), url, org,
                     EnqueueLink(Head(links).link, Head(links).href, url, org, st)))

\* a catch block that gives the crawl up: it drops the tasks still queued
CheckLinksCatchAborting(url, message, st) ==
    [st EXCEPT !.checkedLinks = Append(@, Outcome(url, FETCH_ERROR, message)),
               !.deadLinks = Append(@, Outcome(url, FETCH_ERROR, message)),
               !.queue = <<>>,
               !.threw = FALSE]

\* a catch block that retries: it pushes a new task for the failed address
CheckLinksCatchRetrying(url, message, st) ==
    [st EXCEPT !.checkedLinks = Append(@, Outcome(url, FETCH_ERROR, message)),
               !.deadLinks = Append(@, Outcome(url, FETCH_ERROR, message)),
               !.queue = Append(@, Task("checkLinks", url, Len(st.pushed) + 1)),
               !.pushed = Append(@, Push(Task("checkLinks", url, Len(st.pushed) + 1),
                                         "retry", url, url)),
               !.threw = FALSE]

\* the catch block of checkLinks
CheckLinksCatch(url, message, st) ==
    [st EXCEPT !.checkedLinks = Append(@, Outcome(url, FETCH_ERROR, message)),
               !.deadLinks = Append(@, Outcome(url, FETCH_ERROR, message)),
               !.threw = FALSE]

\* the redirect branch of checkLinks
FollowRedirect(url, response, st) ==
    LET redirectURL == NewURL(response.location, url)
        task        == Task("checkLinks", redirectURL, Len(st.pushed) + 1)
        st1         == [st EXCEPT !.discovered = Append(@, redirectURL)]
    IN  IF response.location = <<>>
        THEN [st EXCEPT !.deadLinks =
                 Append(@, Outcome(url, response.status,
                                   "Redirect with no Location header"))]
        ELSE IF redirectURL = Invalid
        THEN CheckLinksCatch(url, "Invalid URL", st)
        ELSE IF redirectURL \notin st.queuedLinks
        THEN [st1 EXCEPT !.queue = Append(@, task),
                         !.queuedLinks = @ \cup {redirectURL},
                         !.totalLinks = @ + 1,
                         !.pushed = Append(@, Push(task, "redirect", url,
                                                   response.location))]
        ELSE st1

\* checkLinks reads the body of a response exactly when this holds
ReadsBody(response) ==
    /\ response.status < 300
    /\ IsHtml(response.ctype)

\* checkLinks from the resolution of its fetch to its return or to the await
\* of response.text()
CheckLinksResponse(url, response, st) ==
    LET st1 == [st EXCEPT !.checked = @ + 1,
                          !.checkedLinks = Append(@, Outcome(url, response.status, ""))]
    IN  IF response.status >= 400
        THEN [st1 EXCEPT !.deadLinks = Append(@, Outcome(url, response.status, ""))]
        ELSE IF response.status >= 300 /\ response.status < 400
        THEN FollowRedirect(url, response, st1)
        ELSE st1

\* checkLinks from the resolution of response.text() to its return
CheckLinksBody(url, org, response, st) ==
    LET st1 == EnqueueLinks(ExtractLinks(response.hrefs, url), url, org, st)
    IN  IF st1.threw THEN CheckLinksCatch(url, "Invalid URL", st1) ELSE st1

\* the external check from the resolution of its fetch to its return
LeafResponse(link, response, st) ==
    LET st1 == [st EXCEPT !.checked = @ + 1,
                          !.checkedLinks = Append(@, Outcome(link, response.status, ""))]
    IN  IF response.status >= 400
        THEN [st1 EXCEPT !.deadLinks = Append(@, Outcome(link, response.status, ""))]
        ELSE st1

\* the catch block of the external check
LeafCatch(link, message, st) ==
    [st EXCEPT !.deadLinks = Append(@, Outcome(link, FETCH_ERROR, message))]

\* the shared state becomes st
Commit(st) ==
    /\ queue' = st.queue
    /\ queuedLinks' = st.queuedLinks
    /\ totalLinks' = st.totalLinks
    /\ checkedLinks' = st.checkedLinks
    /\ deadLinks' = st.deadLinks
    /\ checked' = st.checked
    /\ pushed' = st.pushed
    /\ discovered' = st.discovered

(***************************************************************************)
(* main.                                                                   *)
(***************************************************************************)
\* the workers processQueue creates
Pool == 1..concurrentRequests

\* a worker whose task has been dequeued and has not settled
Executing(w) == worker[w].pc \in {"fetching", "reading"}

\* main with no URL argument: the usage message and process.exit(1)
MainUsage ==
    /\ mainPc = "start"
    /\ inputURL = NoURL
    /\ mainPc' = "exited"
    /\ exitCode' = 1
    /\ UNCHANGED <<deadLinks, visited, queuedLinks, checkedLinks, checked,
                   totalLinks, isProcessing, queue, inputURL, origin,
                   concurrentRequests, started, worker, failures, pushed,
                   discovered, fetched, completed>>

\* main with a URL argument new URL rejects: main's promise rejects and the
\* handler of main().catch calls process.exit(1)
MainThrows ==
    /\ mainPc = "start"
    /\ inputURL # NoURL
    /\ NewURL(inputURL, <<>>) = Invalid
    /\ mainPc' = "exited"
    /\ exitCode' = 1
    /\ UNCHANGED <<deadLinks, visited, queuedLinks, checkedLinks, checked,
                   totalLinks, isProcessing, queue, inputURL, origin,
                   concurrentRequests, started, worker, failures, pushed,
                   discovered, fetched, completed>>

\* main up to its call of processQueue: the seed task
Main ==
    /\ mainPc = "start"
    /\ inputURL # NoURL
    /\ NewURL(inputURL, <<>>) # Invalid
    /\ origin' = UrlOrigin(NewURL(inputURL, <<>>))
    /\ queue' = Append(queue, Task("checkLinks", inputURL, 1))
    /\ queuedLinks' = queuedLinks \cup {inputURL}
    /\ totalLinks' = totalLinks + 1
    /\ pushed' = Append(pushed, Push(Task("checkLinks", inputURL, 1), "seed",
                                     <<>>, inputURL))
    /\ discovered' = Append(discovered, inputURL)
    /\ mainPc' = "processQueue"
    /\ UNCHANGED <<deadLinks, visited, checkedLinks, checked, isProcessing,
                   inputURL, concurrentRequests, started, worker, exitCode,
                   failures, fetched, completed>>

(***************************************************************************)
(* processQueue.                                                           *)
(***************************************************************************)
\* a worker that leaves the last task of the queue behind
WhileConditionOffByOne(q) == Len(q) > 1

\* the condition of the worker's while loop
WhileCondition(q) == Len(q) > 0

\* a loop that reads the head of the queue and leaves it there
LoopHeadPeeking(w) ==
    IF ~WhileCondition(queue)
    THEN /\ worker' = [worker EXCEPT ![w] = Idle("exited")]
         /\ UNCHANGED <<queue, visited, fetched, completed>>
    ELSE LET task == Head(queue)
         IN  /\ queue' = queue
             /\ IF task.kind = "checkLinks" /\ task.url \in visited
                THEN /\ worker' = [worker EXCEPT ![w] = Idle("sleeping")]
                     /\ completed' = Append(completed, task.id)
                     /\ UNCHANGED <<visited, fetched>>
                ELSE /\ visited' = IF task.kind = "checkLinks"
                                   THEN visited \cup {task.url}
                                   ELSE visited
                     /\ fetched' = Append(fetched, task.url)
                     /\ worker' = [worker EXCEPT ![w] =
                            [pc |-> "fetching", task |-> task,
                             response |-> NoResponse]]
                     /\ UNCHANGED completed

\* a loop that waits on an empty queue and tests it again, until the run is
\* over
LoopHeadWaiting(w) ==
    IF ~WhileCondition(queue)
    THEN /\ worker' = [worker EXCEPT ![w] =
                Idle(IF \E v \in Workers : Executing(v) THEN "sleeping"
                                                        ELSE "exited")]
         /\ UNCHANGED <<queue, visited, fetched, completed>>
    ELSE LET task == Head(queue)
         IN  /\ queue' = Tail(queue)
             /\ IF task.kind = "checkLinks" /\ task.url \in visited
                THEN /\ worker' = [worker EXCEPT ![w] = Idle("sleeping")]
                     /\ completed' = Append(completed, task.id)
                     /\ UNCHANGED <<visited, fetched>>
                ELSE /\ visited' = IF task.kind = "checkLinks"
                                   THEN visited \cup {task.url}
                                   ELSE visited
                     /\ fetched' = Append(fetched, task.url)
                     /\ worker' = [worker EXCEPT ![w] =
                            [pc |-> "fetching", task |-> task,
                             response |-> NoResponse]]
                     /\ UNCHANGED completed

\* the worker's loop from the test of its condition to its next await: it
\* returns, or shifts a task and runs it up to the task's first await
LoopHead(w) ==
    IF ~WhileCondition(queue)
    THEN /\ worker' = [worker EXCEPT ![w] = Idle("exited")]
         /\ UNCHANGED <<queue, visited, fetched, completed>>
    ELSE LET task == Head(queue)
         IN  /\ queue' = Tail(queue)
             /\ IF task.kind = "checkLinks" /\ task.url \in visited
                THEN /\ worker' = [worker EXCEPT ![w] = Idle("sleeping")]
                     /\ completed' = Append(completed, task.id)
                     /\ UNCHANGED <<visited, fetched>>
                ELSE /\ visited' = IF task.kind = "checkLinks"
                                   THEN visited \cup {task.url}
                                   ELSE visited
                     /\ fetched' = Append(fetched, task.url)
                     /\ worker' = [worker EXCEPT ![w] =
                            [pc |-> "fetching", task |-> task,
                             response |-> NoResponse]]
                     /\ UNCHANGED completed

\* Array.from calls the async worker function for the next index: it runs
\* until its first await; after the last one processQueue awaits Promise.all
StartWorker(w) ==
    /\ mainPc = "processQueue"
    /\ w = started + 1
    /\ w \in Pool
    /\ started' = w
    /\ mainPc' = IF w = concurrentRequests THEN "awaitAll" ELSE "processQueue"
    /\ LoopHead(w)
    /\ UNCHANGED <<deadLinks, queuedLinks, checkedLinks, checked, totalLinks,
                   isProcessing, inputURL, origin, concurrentRequests,
                   exitCode, failures, pushed, discovered>>

\* the timer of setTimeout(delay) fires: the next iteration
WorkerLoop(w) ==
    /\ mainPc = "awaitAll"
    /\ worker[w].pc = "sleeping"
    /\ LoopHead(w)
    /\ UNCHANGED <<deadLinks, queuedLinks, checkedLinks, checked, totalLinks,
                   isProcessing, mainPc, inputURL, origin,
                   concurrentRequests, started, exitCode, failures, pushed,
                   discovered>>

\* the task of worker w settles with the shared state st: the worker goes on
\* to its setTimeout
TaskSettles(w, st) ==
    /\ Commit(st)
    /\ worker' = [worker EXCEPT ![w] = Idle("sleeping")]
    /\ completed' = Append(completed, worker[w].task.id)

\* the network fails the request for url, at its fetch or at the read of its
\* body
Fails(url, at) ==
    /\ Len(failures) < MaxFailures
    /\ failures' = Append(failures, [url |-> url, at |-> at])

\* the fetch of a checkLinks task resolves
CheckLinksFetchResolves(w) ==
    /\ mainPc = "awaitAll"
    /\ worker[w].pc = "fetching"
    /\ worker[w].task.kind = "checkLinks"
    /\ Fetchable(worker[w].task.url)
    /\ \E response \in {Fetch(worker[w].task.url)} :
       \E st \in {CheckLinksResponse(worker[w].task.url, response, Store)} :
           IF ReadsBody(response)
           THEN /\ Commit(st)
                /\ worker' = [worker EXCEPT ![w].pc = "reading",
                                            ![w].response = response]
                /\ UNCHANGED completed
           ELSE TaskSettles(w, st)
    /\ UNCHANGED <<visited, isProcessing, mainPc, inputURL, origin,
                   concurrentRequests, started, exitCode, failures, fetched>>

\* the fetch of a checkLinks task rejects: the URL cannot be fetched, or the
\* network fails
CheckLinksFetchRejects(w) ==
    /\ mainPc = "awaitAll"
    /\ worker[w].pc = "fetching"
    /\ worker[w].task.kind = "checkLinks"
    /\ \/ ~Fetchable(worker[w].task.url) /\ failures' = failures
       \/ Fails(worker[w].task.url, "fetch")
    /\ \E st \in {CheckLinksCatch(worker[w].task.url, "fetch failed", Store)} :
           TaskSettles(w, st)
    /\ UNCHANGED <<visited, isProcessing, mainPc, inputURL, origin,
                   concurrentRequests, started, exitCode, fetched>>

\* response.text() resolves: the links of the page are extracted and enqueued
CheckLinksTextResolves(w) ==
    /\ mainPc = "awaitAll"
    /\ worker[w].pc = "reading"
    /\ \E st \in {CheckLinksBody(worker[w].task.url, origin,
                                  worker[w].response, Store)} :
           TaskSettles(w, st)
    /\ UNCHANGED <<visited, isProcessing, mainPc, inputURL, origin,
                   concurrentRequests, started, exitCode, failures, fetched>>

\* response.text() rejects: the connection fails while the body is read
CheckLinksTextRejects(w) ==
    /\ mainPc = "awaitAll"
    /\ worker[w].pc = "reading"
    /\ Fails(worker[w].task.url, "text")
    /\ \E st \in {CheckLinksCatch(worker[w].task.url, "terminated", Store)} :
           TaskSettles(w, st)
    /\ UNCHANGED <<visited, isProcessing, mainPc, inputURL, origin,
                   concurrentRequests, started, exitCode, fetched>>

\* the fetch of an external check resolves
LeafFetchResolves(w) ==
    /\ mainPc = "awaitAll"
    /\ worker[w].pc = "fetching"
    /\ worker[w].task.kind = "leaf"
    /\ Fetchable(worker[w].task.url)
    /\ \E response \in {Fetch(worker[w].task.url)} :
       \E st \in {LeafResponse(worker[w].task.url, response, Store)} :
           TaskSettles(w, st)
    /\ UNCHANGED <<visited, isProcessing, mainPc, inputURL, origin,
                   concurrentRequests, started, exitCode, failures, fetched>>

\* the fetch of an external check rejects
LeafFetchRejects(w) ==
    /\ mainPc = "awaitAll"
    /\ worker[w].pc = "fetching"
    /\ worker[w].task.kind = "leaf"
    /\ \/ ~Fetchable(worker[w].task.url) /\ failures' = failures
       \/ Fails(worker[w].task.url, "fetch")
    /\ \E st \in {LeafCatch(worker[w].task.url, "fetch failed", Store)} :
           TaskSettles(w, st)
    /\ UNCHANGED <<visited, isProcessing, mainPc, inputURL, origin,
                   concurrentRequests, started, exitCode, fetched>>

\* Promise.all(workers) resolves once every worker has returned
ProcessQueueResolves ==
    /\ mainPc = "awaitAll"
    /\ \A w \in Pool : worker[w].pc = "exited"
    /\ isProcessing' = FALSE
    /\ mainPc' = "report"
    /\ UNCHANGED <<deadLinks, visited, queuedLinks, checkedLinks, checked,
                   totalLinks, queue, inputURL, origin, concurrentRequests,
                   started, worker, exitCode, failures, pushed, discovered,
                   fetched, completed>>

\* a report that exits with code 0 whatever the dead-link list holds
ExitIgnoringDeadLinks ==
    /\ mainPc = "report"
    /\ exitCode' = 0
    /\ mainPc' = "exited"
    /\ UNCHANGED <<deadLinks, visited, queuedLinks, checkedLinks, checked,
                   totalLinks, isProcessing, queue, inputURL, origin,
                   concurrentRequests, started, worker, failures, pushed,
                   discovered, fetched, completed>>

\* main after processQueue: process.exit(0) when deadLinks is empty, else 1
Exit ==
    /\ mainPc = "report"
    /\ exitCode' = IF Len(deadLinks) = 0 THEN 0 ELSE 1
    /\ mainPc' = "exited"
    /\ UNCHANGED <<deadLinks, visited, queuedLinks, checkedLinks, checked,
                   totalLinks, isProcessing, queue, inputURL, origin,
                   concurrentRequests, started, worker, failures, pushed,
                   discovered, fetched, completed>>

Next ==
    \/ MainUsage
    \/ MainThrows
    \/ Main
    \/ \E w \in Workers : StartWorker(w)
    \/ \E w \in Workers : WorkerLoop(w)
    \/ \E w \in Workers : CheckLinksFetchResolves(w)
    \/ \E w \in Workers : CheckLinksFetchRejects(w)
    \/ \E w \in Workers : CheckLinksTextResolves(w)
    \/ \E w \in Workers : CheckLinksTextRejects(w)
    \/ \E w \in Workers : LeafFetchResolves(w)
    \/ \E w \in Workers : LeafFetchRejects(w)
    \/ ProcessQueueResolves
    \/ Exit

Spec == Init /\ [][Next]_vars

\* the event loop runs whatever is ready and every request is settled in the
\* end, by a response or by a failure
FairSpec == Spec /\ WF_vars(Next)

\* main reaches process.exit
Termination == <>(mainPc = "exited")

\* the address whose request the network never answers
HungURL == <<SiteOrigin, "/", "about">>

\* a step of the program other than the settling of the fetch of HungURL
NextUnlessHung ==
    /\ Next
    /\ \A w \in Workers :
           (worker[w].pc = "fetching" /\ worker[w].task.url = HungURL)
               => worker'[w] = worker[w]

\* the program when the fetch of HungURL may never return (fetch is called
\* without a timeout): everything else that is ready runs in the end
HungSpec == Spec /\ WF_vars(NextUnlessHung)

(***************************************************************************)
(* Properties.                                                             *)
(***************************************************************************)
\* the indices of the entries of the list s for the URL u
EntriesFor(s, u) == {i \in 1..Len(s) : s[i].url = u}

\* how many times x occurs in the sequence s
Occurrences(s, x) == Cardinality({i \in 1..Len(s) : s[i] = x})

\* processQueue has resolved
Resolved == ~isProcessing

\* C1: a worker exits only when it observes the queue empty and no task in
\* flight: a step in which a worker returns from its loop ends with the queue
\* empty and no worker between the dequeue of a task and its completion.
C1_ExitOnlyWhenNothingInFlight ==
    [][\A w \in Workers :
          (worker[w].pc # "exited" /\ worker'[w].pc = "exited")
              => /\ queue' = <<>>
                 /\ \A v \in Workers : worker'[v].pc \notin {"fetching", "reading"}]_vars

\* C2: processQueue resolves only after every worker has exited; the queue is
\* then empty, no task is executing, and every task ever pushed has been
\* dequeued and has run to completion, once.
C2_ResolvedMeansAllDone ==
    Resolved =>
        /\ \A w \in Pool : worker[w].pc = "exited"
        /\ queue = <<>>
        /\ \A w \in Workers : ~Executing(w)
        /\ \A i \in 1..Len(pushed) : Occurrences(completed, pushed[i].id) = 1

\* C2's case: a run with two workers in which follow-up tasks were pushed by
\* running tasks has resolved
C2_Witness ==
    /\ Resolved
    /\ concurrentRequests = 2
    /\ Len(pushed) >= 4
    /\ \E i \in 1..Len(pushed) : pushed[i].via = "redirect"

\* the URLs of the entries of the list s
Urls(s) == {s[i].url : i \in 1..Len(s)}

\* the network failed a request for u, or u is no URL fetch can request
TransportFailed(u) ==
    \/ ~Fetchable(u)
    \/ \E i \in 1..Len(failures) : failures[i].url = u

\* C3: an address discovered more than once enters queuedLinks once, gets
\* exactly one task, and has exactly one outcome when the run is over.
C3_IdempotentDedup ==
    \A u \in queuedLinks :
        Occurrences(discovered, u) > 1 =>
            /\ Cardinality(EntriesFor(pushed, u)) = 1
            /\ Resolved => Cardinality(EntriesFor(checkedLinks, u)) = 1

\* C4: when the run completes, checkedLinks holds exactly one outcome for
\* every address that was enqueued, whatever the result of its check.
C4_OneOutcomePerAddress ==
    Resolved => \A u \in Urls(pushed) : Cardinality(EntriesFor(checkedLinks, u)) = 1

\* the two pages of the link cycle: /c links to /d and /d links back to /c/
CyclePages == {<<SiteOrigin, "/", "c">>, <<SiteOrigin, "/", "d">>}

\* C5: on the link cycle, seed included, with every fetch answered, each of
\* the two pages appears exactly once in the outcomes of the finished run.
C5_CyclePagesOnce ==
    (Resolved /\ failures = <<>> /\ Resource(inputURL) \in CyclePages) =>
        \A page \in CyclePages :
            Cardinality({i \in 1..Len(checkedLinks) :
                            Resource(checkedLinks[i].url) = page}) = 1

\* the pages of the redirect loops: / and /b of loop.test, /r1 and /r2
RedirectLoopPages ==
    {<<LoopOrigin>>, <<LoopOrigin, "/", "b">>,
     <<SiteOrigin, "/", "r1">>, <<SiteOrigin, "/", "r2">>}

\* C6: on a redirect loop the second occurrence of an address is not
\* enqueued again: each page of the loop gets one task and is fetched once.
C6_RedirectLoopOnce ==
    \A page \in RedirectLoopPages :
        /\ Cardinality({i \in 1..Len(pushed) : Resource(pushed[i].url) = page}) <= 1
        /\ Cardinality({i \in 1..Len(fetched) : Resource(fetched[i]) = page}) <= 1

\* C7: links are extracted only from pages of the seed's origin: every task
\* pushed for an extracted link was pushed by the check of such a page.
C7_ExternalNonRecursion ==
    \A i \in 1..Len(pushed) :
        pushed[i].via = "link" => UrlOrigin(pushed[i].from) = origin

\* the check of u calls for a dead link: a transport failure, a status of
\* 400 or more, or a 3xx response without a Location header
YieldsDead(u) ==
    \/ TransportFailed(u)
    \/ Fetch(u).status >= 400
    \/ /\ Fetch(u).status >= 300
       /\ Fetch(u).status < 400
       /\ Fetch(u).location = <<>>

\* C8: at the end of the run an address is in the dead-link list if and only
\* if its check yielded a status >= 400, a transport failure, or a 3xx
\* response without a Location header.
C8_DeadLinkClassification ==
    Resolved =>
        \A i \in 1..Len(fetched) :
            (fetched[i] \in Urls(deadLinks)) <=> YieldsDead(fetched[i])

\* the list s as a set of <<url, status>> pairs
Pairs(s) == {<<s[i].url, s[i].status>> : i \in 1..Len(s)}

\* C9: in every state the dead-link list is the part of the all-outcomes
\* list whose status is >= 400 or FETCH_ERROR.
C9_DeadSubsetOfOutcomes ==
    /\ Urls(deadLinks) \subseteq Urls(checkedLinks)
    /\ Pairs(deadLinks) =
           {p \in Pairs(checkedLinks) : p[2] >= 400 \/ p[2] = FETCH_ERROR}

\* an anchor of the exclusion set: the href, trimmed, is empty, starts with
\* mailto:, javascript: or #, or is about:blank
ExcludedAnchor(href) ==
    LET t == Trim(href)
    IN  \/ t = <<>>
        \/ Head(t) \in {"mailto:", "javascript:", "#"}
        \/ t = <<"about:blank">>

\* the anchors of the page at u that are not of the exclusion set
Followable(u) ==
    {k \in 1..Len(Fetch(u).hrefs) : ~ExcludedAnchor(Fetch(u).hrefs[k])}

\* C10: an excluded anchor creates no task, adds nothing to queuedLinks or
\* to totalLinks and has no outcome: every address of queuedLinks, every unit
\* of totalLinks and every outcome belongs to a pushed task, no task was
\* pushed for an excluded anchor, and a page has pushed at most as many tasks
\* as it has anchors outside the exclusion set.
C10_ExcludedNeverScheduled ==
    /\ \A i \in 1..Len(pushed) :
           pushed[i].via = "link" => ~ExcludedAnchor(pushed[i].href)
    /\ queuedLinks = Urls(pushed)
    /\ totalLinks = Len(pushed)
    /\ Urls(checkedLinks) \cup Urls(deadLinks) \subseteq Urls(pushed)
    /\ \A u \in Urls(pushed) :
           Cardinality({i \in 1..Len(pushed) :
                           pushed[i].via = "link" /\ pushed[i].from = u})
               <= Cardinality(Followable(u))

\* C10's case: the page whose anchors are of the exclusion set has been
\* parsed and the run is over
C10_Witness ==
    /\ Resolved
    /\ inputURL = <<SiteOrigin, "/", "ex">>
    /\ EntriesFor(failures, inputURL) = {}
    /\ Len(pushed) = 3

\* an address in normalized form: no fragment and no trailing slash
IsNormalized(u) == ~(\E i \in 1..Len(u) : u[i] = "#") /\ ~EndsWith(u, "/")

\* C11: every address that enters queuedLinks (the seed, a redirect target,
\* an extracted link) is in normalized form, so that references differing
\* only by a trailing slash or a fragment get one task and one fetch.
C11_QueuedLinksNormalized ==
    /\ \A u \in queuedLinks : IsNormalized(u)
    /\ \A i, j \in 1..Len(pushed) :
           Resource(pushed[i].url) = Resource(pushed[j].url) => i = j
    /\ \A i, j \in 1..Len(fetched) :
           Resource(fetched[i]) = Resource(fetched[j]) => i = j

\* the process has exited
Exited == mainPc = "exited"

\* C12: after processQueue resolves the exit code is 0 if and only if the
\* dead-link list is empty, and 1 otherwise; without a seed URL the exit code
\* is 1 and nothing was enqueued or fetched; the run from https://site.test/
\* (links /about, https://other.test/x, /missing, the last one a 404) ends
\* with 4 outcomes, the dead set {/missing} and exit code 1.
C12_ExitCode ==
    Exited =>
        /\ Resolved => /\ exitCode \in {0, 1}
                        /\ exitCode = 0 <=> deadLinks = <<>>
        /\ inputURL = NoURL =>
               /\ exitCode = 1
               /\ ~Resolved
               /\ pushed = <<>> /\ queue = <<>> /\ queuedLinks = {}
               /\ fetched = <<>> /\ totalLinks = 0
        /\ (inputURL = <<SiteOrigin, "/">> /\ failures = <<>>) =>
               /\ Len(checkedLinks) = 4
               /\ Urls(checkedLinks) =
                      {<<SiteOrigin, "/">>, <<SiteOrigin, "/", "about">>,
                       <<SiteOrigin, "/", "missing">>, <<OtherOrigin, "/", "x">>}
               /\ Pairs(deadLinks) = {<< <<SiteOrigin, "/", "missing">>, 404 >>}
               /\ Len(deadLinks) = 1
               /\ exitCode = 1

\* C12's case: the end-to-end run from https://site.test/ has exited
C12_Witness ==
    /\ Exited
    /\ Resolved
    /\ inputURL = <<SiteOrigin, "/">>
    /\ failures = <<>>
    /\ exitCode = 1

\* C13: in every state another worker or updateStatus can observe,
\* totalLinks is the number of addresses in queuedLinks; a step increments it
\* by the number of addresses the step adds to queuedLinks, and by nothing
\* else, and it never decreases.
C13_TotalLinksTracksQueuedLinks ==
    [][/\ totalLinks = Cardinality(queuedLinks)
       /\ totalLinks' = Cardinality(queuedLinks')
       /\ queuedLinks \subseteq queuedLinks'
       /\ totalLinks' >= totalLinks
       /\ totalLinks' - totalLinks = Cardinality(queuedLinks' \ queuedLinks)]_vars

\* C13's case: the seed, an internal link, an external link and a redirect
\* target have all been added to queuedLinks in one run
C13_Witness ==
    /\ totalLinks >= 5
    /\ \E i \in 1..Len(pushed) : pushed[i].via = "seed"
    /\ \E i \in 1..Len(pushed) : pushed[i].via = "redirect"
    /\ \E i \in 1..Len(pushed) : pushed[i].via = "link" /\ pushed[i].kind = "leaf"
    /\ \E i \in 1..Len(pushed) :
           pushed[i].via = "link" /\ pushed[i].kind = "checkLinks"

\* a status in [300, 400)
IsRedirectStatus(status) == status >= 300 /\ status < 400

FetchRejects(w) ==
    /\ worker[w].pc = "fetching"
    /\ worker'[w].pc # "fetching"
    /\ \/ ~Fetchable(worker[w].task.url)
       \/ /\ Len(failures') = Len(failures) + 1
          /\ Last(failures') = [url |-> worker[w].task.url, at |-> "fetch"]

\* the addresses whose fetch has been rejected
FetchFailed ==
    {fetched[i] : i \in {j \in 1..Len(fetched) : ~Fetchable(fetched[j])}}
        \cup {failures[i].url : i \in {j \in 1..Len(failures) : failures[j].at = "fetch"}}

\* C16: a transport failure is terminal: the step in which the fetch of an
\* address fails appends one FETCH_ERROR entry with a message for that address
\* to the dead-link list, pushes no task and leaves queue, queuedLinks,
\* visited and totalLinks as they were; and an address whose fetch failed has
\* been fetched once in all.
C16_TransportFailureTerminal ==
    [][/\ \A w \in Workers :
              FetchRejects(w) =>
                  /\ Len(deadLinks') = Len(deadLinks) + 1
                  /\ SubSeq(deadLinks', 1, Len(deadLinks)) = deadLinks
                  /\ Last(deadLinks').url = worker[w].task.url
                  /\ Last(deadLinks').status = FETCH_ERROR
                  /\ Last(deadLinks').error # ""
                  /\ UNCHANGED <<queue, pushed, queuedLinks, visited, totalLinks,
                                 fetched>>
       /\ \A u \in FetchFailed' : Occurrences(fetched', u) = 1]_vars

\* C16's case: a fetch failed in the middle of a run, and the run went on to
\* its end
C16_Witness ==
    /\ Resolved
    /\ \E i \in 1..Len(failures) :
           /\ failures[i].at = "fetch"
           /\ \E j \in 1..(Len(fetched) - 1) : fetched[j] = failures[i].url

\* the entries the step appends to the list s: s is a prefix of t
Appended(s, t) == SubSeq(t, Len(s) + 1, Len(t))

IsPrefix(s, t) == Len(s) <= Len(t) /\ SubSeq(t, 1, Len(s)) = s

\* C17: a failure while an address is checked stays local: every step of a
\* running task, failing or not, leaves its worker reading or sleeping (never
\* returned, the process never exited), records outcomes for the task's own
\* address only, settles the task, leaves the other workers and the tasks
\* already queued as they were; and when processQueue resolves every task
\* ever pushed has been executed.
C17_FailuresAreLocal ==
    [][/\ \A w \in Workers :
              (Executing(w) /\ worker'[w] # worker[w]) =>
                  /\ worker'[w].pc \in {"reading", "sleeping"}
                  /\ worker'[w].pc = "sleeping" =>
                         completed' = Append(completed, worker[w].task.id)
                  /\ \A v \in Workers \ {w} : worker'[v] = worker[v]
                  /\ IsPrefix(queue, queue')
                  /\ IsPrefix(deadLinks, deadLinks')
                  /\ IsPrefix(checkedLinks, checkedLinks')
                  /\ Urls(Appended(deadLinks, deadLinks')) \subseteq {worker[w].task.url}
                  /\ Urls(Appended(checkedLinks, checkedLinks'))
                         \subseteq {worker[w].task.url}
                  /\ UNCHANGED <<mainPc, exitCode, isProcessing>>
       /\ Resolved' =>
              \A i \in 1..Len(pushed') : Occurrences(completed', pushed'[i].id) = 1]_vars

\* C17's case: the run from https://site.test/m, with a link fetch cannot
\* request, a redirect whose Location does not parse and a request the
\* network failed, has executed its six tasks
C17_Witness ==
    /\ Resolved
    /\ inputURL = <<SiteOrigin, "/", "m">>
    /\ \E i \in 1..Len(failures) : failures[i].url # inputURL
    /\ Len(completed) = 6
    /\ Len(deadLinks) >= 3

\* C18: a hung request stalls only its own worker: with two workers or more,
\* while the fetch of one task never returns, the tasks in the queue are still
\* dequeued in the end.
C18_HungRequestStallsOneSlot ==
    (concurrentRequests >= 2 /\ queue # <<>>) ~> (queue = <<>>)

\* in how many places the task id is: waiting in the queue, held by a worker
\* that executes it, settled
Places(id) ==
    Cardinality({i \in 1..Len(queue) : queue[i].id = id})
        + Cardinality({w \in Workers : Executing(w) /\ worker[w].task.id = id})
        + Occurrences(completed, id)

\* every task pushed is in one place: no task is held by two workers, none
\* is held or settled and still queued, none is settled twice
ClaimedOnce == \A i \in 1..Len(pushed) : Places(pushed[i].id) = 1

\* C19: no two workers claim the same task: each task pushed is removed from
\* the queue by one worker and executed once, and a worker that starts a task
\* has taken it from the head of a queue that was not empty, in the same step.
C19_NoDoubleClaim ==
    [][/\ ClaimedOnce
       /\ ClaimedOnce'
       /\ \A w \in Workers :
              (~Executing(w) /\ Executing(w)') =>
                  /\ queue # <<>>
                  /\ worker'[w].task = Head(queue)
                  /\ queue' = Tail(queue)
                  /\ \A v \in Workers \ {w} : worker'[v] = worker[v]
       /\ Len(queue') < Len(queue) => queue' = Tail(queue)]_vars

\* C19's case: two workers have tested the queue that held one task; one has
\* the task, the other has found the queue empty
C19_Witness ==
    /\ concurrentRequests = 2
    /\ started = 2
    /\ Executing(1)
    /\ worker[2].pc = "exited"
    /\ Len(pushed) = 1

====
